---- MODULE Spec2Model ----
(***************************************************************************)
(* A model of the reaction subsystem of wwsnb (src/src/modules/reactions.ts): *)
(* the ReactionManager singleton, its WebSocket transport with bounded     *)
(* reconnection, its outbound queue, its in-memory reaction table and the  *)
(* part of the page it draws.                                              *)
(*                                                                         *)
(* JavaScript runs every event handler to completion, microtasks included, *)
(* before the next event is dispatched.  In this program at most one       *)
(* promise chain is alive in a task (addReaction after a click, or         *)
(* processQueue after an open), so an action below is one task: the        *)
(* handler together with the continuations of its awaits.                  *)
(***************************************************************************)
EXTENDS Integers, Sequences, FiniteSets, TLC

(***************************************************************************)
(* Bounds of the model.                                                    *)
(***************************************************************************)
MaxSockets == 4        \* WebSocket objects created in one run
MaxToggles == 2        \* clicks that reach sendReactionUpdate in one run
MaxListLen == 2        \* longest reactor list an inbound table carries
MaxFrames == 1         \* inbound frames delivered in one run
MaxSnapEntries == 1    \* emoji entries in the table of an inbound frame
MaxSessions == 2       \* page loads (ReactionManager instances) in one run
MaxCleanups == 2       \* calls of cleanup() in one run
MaxFrameRun == 2       \* inbound frames in a run made of frames only
MaxTime == 220         \* milliseconds the clock runs in one run
MaxPickers == 3        \* pickers opened in one run

None == "none"

MsgIds == {"m1", "m2"}
Emojis == {"e1", "e2"}
Users == {"alice", "bob"}

\* config.maxReconnectAttempts
MaxReconnectAttempts == 5

\* the delay handleMutations passes to debounce, in milliseconds
DebounceDelay == 100

(***************************************************************************)
(* Maps.  A JavaScript Map is a function on the set of its keys; the       *)
(* iteration order of the keys is not modelled, the order inside a reactor *)
(* list is.                                                                *)
(***************************************************************************)
EmptyMap == [k \in {} |-> None]

MapSet(map, key, val) ==
    [k \in (DOMAIN map) \cup {key} |-> IF k = key THEN val ELSE map[k]]

MapDelete(map, key) == [k \in (DOMAIN map) \ {key} |-> map[k]]

\* map.get(key) || dflt, for values that are never falsy (Maps and arrays)
MapGet(map, key, dflt) == IF key \in DOMAIN map THEN map[key] ELSE dflt

\* users.includes(userId)
Includes(users, userId) == \E i \in 1..Len(users) : users[i] = userId

\* users.filter(user => user !== userId)
FilterOut(users, userId) == SelectSeq(users, LAMBDA user : user # userId)

SeqsUpTo(S, n) == UNION {[1..k -> S] : k \in 0..n}

(***************************************************************************)
(* Local Reaction Store                                                    *)
(***************************************************************************)

\* getReactionAction
GetReactionAction(state, messageId, emoji, userId) ==
    LET reactions == MapGet(state, messageId, EmptyMap)
        users == MapGet(reactions, emoji, <<>>)
    IN IF Includes(users, userId) THEN "remove" ELSE "add"

\* a slip of updateLocalReaction: the emptied emoji key is kept
UpdateLocalReactionKeepEmpty(state, messageId, emoji, userId) ==
    LET reactions == MapGet(state, messageId, EmptyMap)
        users == MapGet(reactions, emoji, <<>>)
    IN MapSet(state, messageId,
              MapSet(reactions, emoji,
                     IF Includes(users, userId)
                     THEN FilterOut(users, userId)
                     ELSE Append(users, userId)))

\* a slip of updateLocalReaction: a new reactor is put first
UpdateLocalReactionPrepend(state, messageId, emoji, userId) ==
    LET reactions == MapGet(state, messageId, EmptyMap)
        users == MapGet(reactions, emoji, <<>>)
        updatedUsers == FilterOut(users, userId)
    IN MapSet(state, messageId,
              IF Includes(users, userId)
              THEN IF Len(updatedUsers) = 0
                   THEN MapDelete(reactions, emoji)
                   ELSE MapSet(reactions, emoji, updatedUsers)
              ELSE MapSet(reactions, emoji, <<userId>> \o users))

\* updateLocalReaction
UpdateLocalReaction(state, messageId, emoji, userId) ==
    LET reactions == MapGet(state, messageId, EmptyMap)
        users == MapGet(reactions, emoji, <<>>)
        isRemoving == Includes(users, userId)
        updatedUsers == FilterOut(users, userId)
    IN MapSet(state, messageId,
              IF isRemoving
              THEN IF Len(updatedUsers) = 0
                   THEN MapDelete(reactions, emoji)
                   ELSE MapSet(reactions, emoji, updatedUsers)
              ELSE MapSet(reactions, emoji, Append(users, userId)))

(***************************************************************************)
(* Wire and storage encodings                                              *)
(***************************************************************************)

UserLists == SeqsUpTo(Users, MaxListLen)

\* the reaction maps and tables an inbound frame or a storage entry can carry
ReactionMaps == UNION {[E -> UserLists] : E \in SUBSET Emojis}

Tables == UNION {[S -> ReactionMaps] : S \in SUBSET MsgIds}

\* JSON.stringify of a Map: a Map has no enumerable own property, so the
\* text is "{}" whatever the Map holds
JsonOfMap(reactions) == EmptyMap

\* JSON.stringify(Array.from(this.messageReactions.entries())): the list of
\* [messageId, <JSON of the inner Map>] pairs, as a function on the ids
EncodeEntries(state) == [m \in DOMAIN state |-> JsonOfMap(state[m])]

\* an outbound reaction_update message; seq stands for the identity of the
\* JavaScript object
Message(seq, messageId, emoji, userId, action) ==
    [seq |-> seq, messageId |-> messageId, emoji |-> emoji,
     userId |-> userId, action |-> action]

\* the frames the socket transmits
UpdateFrame(m) ==
    [type |-> "reaction_update", seq |-> m.seq, messageId |-> m.messageId,
     emoji |-> m.emoji, userId |-> m.userId, action |-> m.action,
     reactions |-> EmptyMap]

\* sendInitialState's frame
InitialFrame(state) ==
    [type |-> "update_reactions", seq |-> 0, messageId |-> None,
     emoji |-> None, userId |-> None, action |-> None,
     reactions |-> EncodeEntries(state)]

\* a JSON value stored under an emoji: an array of strings, or something that
\* is no array (null, a string, a number, an object)
JsonArray(users) == [arr |-> TRUE, items |-> users]

JsonOther == [arr |-> FALSE, items |-> <<>>]

\* a slip of saveToLocalStorage: a message without reactions is left out
StorageJsonDropEmpty(state) ==
    LET kept == {m \in DOMAIN state : DOMAIN state[m] # {}}
    IN [kind |-> "json",
        obj |-> [m \in kept |-> [e \in DOMAIN state[m] |-> JsonArray(state[m][e])]]]

\* saveToLocalStorage's value: Object.fromEntries of the table and of every
\* inner Map, as JSON text
StorageJson(state) ==
    [kind |-> "json",
     obj |-> [m \in DOMAIN state |->
                 [e \in DOMAIN state[m] |-> JsonArray(state[m][e])]]]

StorageAbsent == [kind |-> "absent", obj |-> EmptyMap]

StorageCorrupt == [kind |-> "corrupt", obj |-> EmptyMap]

(***************************************************************************)
(* The page: message elements (.sc-leYdVB) in document order.  An element  *)
(* holds its dataset and its children; a child is the host page's own      *)
(* content (author, text, timestamp: "orig"), a reaction button, a         *)
(* reactions wrapper with its container, a bare reactions container, or a  *)
(* run of badges appended to the element itself ("badges").                *)
(***************************************************************************)
ElemOrder == <<"el1", "el2">>

Elems == {ElemOrder[i] : i \in 1..Len(ElemOrder)}

\* generateMessageId of an element whose three sub-elements are gone
EmptyContentId == "m0"

Node(k, id, badges) == [k |-> k, id |-> id, badges |-> badges]

OrigNode == Node("orig", None, EmptyMap)

HasKind(children, k) == \E i \in 1..Len(children) : children[i].k = k

\* generateMessageId: a function of the text of the three sub-elements
GenerateMessageId(el) ==
    IF HasKind(el.children, "orig") THEN el.content ELSE EmptyContentId

\* the badges updateReactionDisplay builds: none when the user name is
\* undefined, else one per emoji with the reactor list and the highlight
RenderBadges(state, messageId, user) ==
    LET reactions == MapGet(state, messageId, EmptyMap)
    IN IF user = None
       THEN EmptyMap
       ELSE [e \in DOMAIN reactions |->
                [users |-> reactions[e], hl |-> Includes(reactions[e], user)]]

IsContainer(n) == n.k \in {"wrapper", "container"}

\* querySelector('.reactions-container'): the first one in document order
FirstContainer(children) ==
    IF \E i \in 1..Len(children) : IsContainer(children[i])
    THEN CHOOSE i \in 1..Len(children) :
            /\ IsContainer(children[i])
            /\ \A j \in 1..(i - 1) : ~IsContainer(children[j])
    ELSE 0

\* ensureReactionsContainer
EnsureReactionsContainer(children) ==
    IF FirstContainer(children) = 0
    THEN Append(children, Node("container", None, EmptyMap))
    ELSE children

\* updateReactionDisplay(messageId, container) on a reactions container
UpdateContainerDisplay(children, i, state, messageId, user) ==
    [children EXCEPT ![i] = Node(children[i].k, messageId,
                                 RenderBadges(state, messageId, user))]

\* updateReactionDisplay(messageId, messageContainer): clearContainer empties
\* the message element itself, then the badges are appended to it
UpdateElementDisplay(state, messageId, user) ==
    LET badges == RenderBadges(state, messageId, user)
    IN IF DOMAIN badges = {} THEN <<>> ELSE <<Node("badges", messageId, badges)>>

\* one iteration of updateAllReactionDisplays
RedrawElement(el, state, user) ==
    LET messageId == IF el.messageId # None THEN el.messageId
                     ELSE GenerateMessageId(el)
    IN IF ~el.attached THEN el
       ELSE IF messageId \in DOMAIN state
       THEN [el EXCEPT !.messageId = messageId,
                       !.children = UpdateElementDisplay(state, messageId, user),
                       !.hasReactions = TRUE]
       ELSE [el EXCEPT !.messageId = messageId]

\* updateAllReactionDisplays
UpdateAllReactionDisplays(d, state, user) ==
    [x \in Elems |-> RedrawElement(d[x], state, user)]

\* querySelector(`[data-message-id="..."]`): the first attached element
FirstWithId(d, messageId) ==
    IF \E i \in 1..Len(ElemOrder) :
          d[ElemOrder[i]].attached /\ d[ElemOrder[i]].messageId = messageId
    THEN CHOOSE i \in 1..Len(ElemOrder) :
            /\ d[ElemOrder[i]].attached /\ d[ElemOrder[i]].messageId = messageId
            /\ \A j \in 1..(i - 1) :
                  ~(d[ElemOrder[j]].attached /\ d[ElemOrder[j]].messageId = messageId)
    ELSE 0

\* updateMessageReactions
UpdateMessageReactions(d, state, messageId, user) ==
    LET i == FirstWithId(d, messageId)
    IN IF i = 0 THEN d
       ELSE LET x == ElemOrder[i]
                ch == EnsureReactionsContainer(d[x].children)
            IN [d EXCEPT ![x].children =
                   UpdateContainerDisplay(ch, FirstContainer(ch), state, messageId, user)]

\* addReactionButton on one element: [dom, state] afterwards
AddReactionButton(d, state, x, user) ==
    IF d[x].hasReactions THEN [dom |-> d, state |-> state]
    ELSE LET messageId == GenerateMessageId(d[x])
             st == IF messageId \in DOMAIN state THEN state
                   ELSE MapSet(state, messageId, EmptyMap)
         IN [dom |-> [d EXCEPT ![x].messageId = messageId,
                               ![x].hasReactions = TRUE,
                               ![x].children =
                                   d[x].children \o
                                   <<Node("button", messageId, EmptyMap),
                                     Node("wrapper", messageId,
                                          RenderBadges(st, messageId, user))>>],
             state |-> st]

\* checkAndAddReactionButtons: the elements in document order from the i-th
RECURSIVE CheckAndAddFrom(_, _, _, _)
CheckAndAddFrom(d, state, i, user) ==
    IF i > Len(ElemOrder) THEN [dom |-> d, state |-> state]
    ELSE LET x == ElemOrder[i]
             r == IF d[x].attached /\ ~d[x].hasReactions
                  THEN AddReactionButton(d, state, x, user)
                  ELSE [dom |-> d, state |-> state]
         IN CheckAndAddFrom(r.dom, r.state, i + 1, user)

CheckAndAddReactionButtons(d, state, user) == CheckAndAddFrom(d, state, 1, user)

\* the badges an element shows, container by container in document order
Displayed(el) ==
    LET shown == SelectSeq(el.children, LAMBDA n : DOMAIN n.badges # {})
    IN [i \in 1..Len(shown) |->
           [e \in DOMAIN shown[i].badges |-> shown[i].badges[e].users]]

\* the kinds of the children of an element, in document order
Skeleton(children) == [i \in 1..Len(children) |-> children[i].k]

CountKind(children, k) == Len(SelectSeq(children, LAMBDA n : n.k = k))

\* a task that took the page from d1 to d2 added or removed nodes (childList
\* records; a change of a data- attribute alone makes none that qualifies)
ChildListChanged(d1, d2) ==
    \E x \in Elems : \/ d1[x].attached # d2[x].attached
                     \/ d1[x].attached /\ d1[x].children # d2[x].children

\* updateAllReactionDisplays adds or removes nodes: it clears and refills
\* every element whose identity the table has
RedrawTouches(d, state) ==
    \E x \in Elems :
       /\ d[x].attached
       /\ (IF d[x].messageId # None THEN d[x].messageId ELSE GenerateMessageId(d[x]))
              \in DOMAIN state

(***************************************************************************)
(* Moderator Tagger (src/src/modules/moderator.ts, src/unnamed/part_000).  *)
(* The page as the tagger sees it: the message containers (.sc-leYdVB),    *)
(* each inside the one list item (role="listitem") or outside any, with or *)
(* without a moderator avatar and a user name span inside it; the list     *)
(* item can hold an avatar and a user name span of its own, outside and    *)
(* ahead of the message containers.  The two files export the same         *)
(* addClassModerator: a build holds one of them, chat.variant says which   *)
(* ("pass": moderator.ts, "single": part_000).                             *)
(***************************************************************************)
NewMessage(attached, inItem, avatar, name) ==
    [attached |-> attached, inItem |-> inItem, avatar |-> avatar, name |-> name,
     checked |-> FALSE, class |-> FALSE, badges |-> 0]

NewItem(avatar, name) == [avatar |-> avatar, name |-> name, class |-> FALSE, badges |-> 0]

NewChat(variant, avatar, name) ==
    [variant |-> variant, item |-> NewItem(avatar, name),
     msgs |-> [x \in Elems |-> NewMessage(FALSE, FALSE, FALSE, FALSE)]]

\* a page without message containers
QuietChat == NewChat("pass", FALSE, FALSE)

InItem(c, x) == c.msgs[x].attached /\ c.msgs[x].inItem

\* parent.querySelector('[data-test="moderatorAvatar"]') on the list item
ItemHasAvatar(c) == c.item.avatar \/ \E x \in Elems : InItem(c, x) /\ c.msgs[x].avatar

\* parent.querySelector('.sc-lmONJn span') on the list item when it has no
\* user name of its own: the first message container in it that has one
FirstNamed(c) ==
    IF \E i \in 1..Len(ElemOrder) : InItem(c, ElemOrder[i]) /\ c.msgs[ElemOrder[i]].name
    THEN CHOOSE i \in 1..Len(ElemOrder) :
            /\ InItem(c, ElemOrder[i]) /\ c.msgs[ElemOrder[i]].name
            /\ \A j \in 1..(i - 1) :
                  ~(InItem(c, ElemOrder[j]) /\ c.msgs[ElemOrder[j]].name)
    ELSE 0

\* a slip of addClassModerator: the badge is appended without looking for one
AddClassModeratorNoLookup(c, node) ==
    IF node = "item"
    THEN LET tagged == [c EXCEPT !.item.class = TRUE]
         IN IF c.item.name
            THEN [tagged EXCEPT !.item.badges = @ + 1]
            ELSE IF FirstNamed(c) # 0
            THEN [tagged EXCEPT !.msgs[ElemOrder[FirstNamed(c)]].badges = @ + 1]
            ELSE tagged
    ELSE [c EXCEPT !.msgs[node].class = TRUE,
                   !.msgs[node].badges = IF c.msgs[node].name THEN @ + 1 ELSE @]

\* addClassModerator(message): node is a message container, or "item" for the
\* list item
AddClassModerator(c, node) ==
    IF node = "item"
    THEN LET tagged == [c EXCEPT !.item.class = TRUE]
         IN IF c.item.name
            THEN [tagged EXCEPT !.item.badges = IF @ = 0 THEN 1 ELSE @]
            ELSE IF FirstNamed(c) # 0
            THEN [tagged EXCEPT !.msgs[ElemOrder[FirstNamed(c)]].badges =
                                    IF @ = 0 THEN 1 ELSE @]
            ELSE tagged
    ELSE [c EXCEPT !.msgs[node].class = TRUE,
                   !.msgs[node].badges =
                       IF c.msgs[node].name /\ @ = 0 THEN 1 ELSE @]

\* checkForModeratorMessages(message) of part_000: [chat, threw]; with no
\* list-item ancestor closest() returns null and parent.querySelector throws
CheckForModeratorMessages(c, x) ==
    IF c.msgs[x].checked THEN [chat |-> c, threw |-> FALSE]
    ELSE LET flagged == [c EXCEPT !.msgs[x].checked = TRUE]
         IN IF ~c.msgs[x].inItem THEN [chat |-> flagged, threw |-> TRUE]
            ELSE IF ItemHasAvatar(c)
            THEN [chat |-> AddClassModerator(flagged, "item"), threw |-> FALSE]
            ELSE [chat |-> flagged, threw |-> FALSE]

\* checkModeratorMessages of moderator.ts: the containers in document order
\* from the i-th
RECURSIVE CheckModeratorFrom(_, _)
CheckModeratorFrom(c, i) ==
    IF i > Len(ElemOrder) THEN c
    ELSE LET x == ElemOrder[i]
             flagged == [c EXCEPT !.msgs[x].checked = TRUE]
         IN CheckModeratorFrom(
                IF ~c.msgs[x].attached \/ c.msgs[x].checked THEN c
                ELSE IF c.msgs[x].avatar THEN AddClassModerator(flagged, x)
                ELSE flagged,
                i + 1)

CheckModeratorMessages(c) == CheckModeratorFrom(c, 1)

\* the node the tagger marks for message container x, its class and the MOD
\* badges in it
TaggedClass(c, x) ==
    IF c.variant = "pass" THEN c.msgs[x].class
    ELSE c.msgs[x].inItem /\ c.item.class

BadgesOf(c, y) == IF InItem(c, y) THEN c.msgs[y].badges ELSE 0

TaggedBadges(c, x) ==
    IF c.variant = "pass" THEN c.msgs[x].badges
    ELSE IF c.msgs[x].inItem
    THEN c.item.badges + BadgesOf(c, ElemOrder[1]) + BadgesOf(c, ElemOrder[2])
    ELSE 0

\* the marker as the inspection of x looks for it
MarkerFor(c, x) ==
    IF c.variant = "pass" THEN c.msgs[x].avatar
    ELSE c.msgs[x].inItem /\ ItemHasAvatar(c)

\* whether the node marked for x holds a user name span
NameFor(c, x) ==
    IF c.variant = "pass" THEN c.msgs[x].name
    ELSE c.msgs[x].inItem /\ (c.item.name \/ FirstNamed(c) # 0)

NoInspection == [done |-> FALSE, marker |-> FALSE, name |-> FALSE,
                 class |-> FALSE, badges |-> 0]

\* what the first inspection of x found and left
Inspection(before, after, x) ==
    [done |-> TRUE, marker |-> MarkerFor(before, x), name |-> NameFor(before, x),
     class |-> TaggedClass(after, x), badges |-> TaggedBadges(after, x)]

(***************************************************************************)
(* Debounce                                                                *)
(***************************************************************************)

\* a slip of debounce: the pending timer is not cleared
DebounceKeepPending(t, time, delay) ==
    [field |-> "live", timers |-> Append(t.timers, time + delay)]

\* debounce, on [field, timers]: clearTimeout(this.debounceTimeout), then
\* setTimeout(fn, delay) whose id is stored in the field
Debounce(t, time, delay) ==
    [field |-> "live",
     timers |-> Append(IF t.field = "live"
                       THEN SubSeq(t.timers, 1, Len(t.timers) - 1)
                       ELSE t.timers,
                       time + delay)]

\* handleMutations: shouldCheck is whether some record is a childList, a
\* characterData or a style attribute mutation
HandleMutations(t, shouldCheck, time) ==
    IF shouldCheck THEN Debounce(t, time, DebounceDelay) ELSE t

(***************************************************************************)
(* State                                                                   *)
(***************************************************************************)
VARIABLES
    phase,              \* "new" after construction, "running" after setup()
    messageReactions,   \* this.messageReactions
    messageQueue,       \* this.messageQueue
    ws,                 \* readyState of this.ws, or "none" when it is unset
    reconnectAttempts,  \* this.reconnectAttempts
    timers,             \* pending setTimeout(() => connectWebSocket(...))
    oldFail,            \* replaced sockets still to fire error and close
    oldClose,           \* replaced sockets still to fire close
    storage,            \* localStorage entry wwsnb_reactions_<sessionToken>
    dom,                \* the message elements of the page
    currentUserName,    \* what getActualUserName() returns
    wire,               \* frames transmitted on this.ws since it was created
    sockets,            \* history: WebSocket objects created
    toggles,            \* history: reaction_update messages built
    frames,             \* history: inbound frames handled
    sentLog,            \* history: seq of every reaction_update transmitted
    enqueued,           \* history: every message passed to queueMessage
    applied,            \* history: seq of the toggles applied to the table
    failedSinceOpen,    \* history: connections failed since the last open
    opened,             \* history: what the last onopen of this.ws saw
    lastFrame,          \* history: the last inbound frame and its effect
    twice,              \* history: the toggles applied in a row
    observing,          \* this.messagesObserver is connected
    checkInterval,      \* the interval of startPeriodicCheck is running
    debounceTimeout,    \* this.debounceTimeout: "unset", or the last timer made
                        \* by debounce, still pending ("live") or fired ("stale")
    debounceTimers,     \* due times of the pending debounce timers, oldest first
    now,                \* the clock, in milliseconds
    chat,               \* the page as the Moderator Tagger sees it
    sessions,           \* history: page loads so far
    cleaned,            \* history: the calls of cleanup() and the last one's input
    persisted,          \* history: the table saveToLocalStorage last wrote
    burst,              \* history: the last qualifying mutation and the scans since
    scanDone,           \* history: a scan was the last thing that touched the page
    preRender,          \* history: the page before the last render
    tagLog,             \* history: what the Moderator Tagger's inspections did
    pickers,            \* the .reaction-picker elements in document.body, in order
    listeners,          \* the click listeners installed on document
    pickerSeq           \* history: pickers created so far

progVars == <<phase, messageReactions, messageQueue, ws, reconnectAttempts,
              timers, oldFail, oldClose, storage, dom, currentUserName>>

histVars == <<wire, sockets, toggles, frames, sentLog, enqueued, applied,
              failedSinceOpen, opened, lastFrame, twice>>

lifeVars == <<observing, checkInterval, sessions, cleaned>>

timeVars == <<debounceTimeout, debounceTimers, now, burst>>

drawVars == <<scanDone, preRender>>

tagVars == <<chat, tagLog>>

pickVars == <<pickers, listeners, pickerSeq>>

\* everything but the pickers
coreVars == <<progVars, histVars, lifeVars, persisted, timeVars, drawVars, tagVars>>

vars == <<coreVars, pickVars>>

NotOpened == [done |-> FALSE, clean |-> FALSE, sentInitial |-> FALSE,
              queue |-> <<>>, state |-> EmptyMap]

NoFrame == [seen |-> FALSE, accepted |-> FALSE, envelope |-> FALSE,
            expected |-> EmptyMap, malformed |-> FALSE, badTable |-> FALSE,
            afterMalformed |-> FALSE]

NoTwice == [n |-> 0, messageId |-> None, emoji |-> None, userId |-> None,
            before |-> <<>>]

NoCleanup == [n |-> 0, isRefresh |-> FALSE, storeOk |-> FALSE]

NotPersisted == [valid |-> FALSE, state |-> EmptyMap, loaded |-> FALSE]

NoBurst == [last |-> -1, ran |-> 0, at |-> -1, of |-> -1, restarted |-> FALSE]

NoRender == [done |-> FALSE, skeleton |-> [x \in Elems |-> <<>>]]

NoTagLog == [threw |-> FALSE, first |-> [x \in Elems |-> NoInspection]]

NewElement(content, attached) ==
    [attached |-> attached, content |-> content, messageId |-> None,
     hasReactions |-> FALSE, children |-> <<OrigNode>>]

\* the page when the page loads: one message, a second one arrives later
InitDom == [x \in Elems |-> NewElement("m1", x = "el1")]

\* the fields as the class initialisers leave them
InitProgram ==
    /\ phase = "new"
    /\ messageReactions = EmptyMap
    /\ messageQueue = <<>>
    /\ ws = None
    /\ reconnectAttempts = 0
    /\ timers = 0
    /\ oldFail = 0
    /\ oldClose = 0
    /\ observing = FALSE
    /\ checkInterval = FALSE
    /\ debounceTimeout = "unset"
    /\ debounceTimers = <<>>
    /\ now = 0
    /\ pickers = <<>>
    /\ listeners = {}

InitHistory ==
    /\ wire = <<>>
    /\ sockets = 0
    /\ toggles = 0
    /\ frames = 0
    /\ sentLog = <<>>
    /\ enqueued = <<>>
    /\ applied = {}
    /\ failedSinceOpen = 0
    /\ opened = NotOpened
    /\ lastFrame = NoFrame
    /\ twice = NoTwice
    /\ sessions = 1
    /\ cleaned = NoCleanup
    /\ persisted = NotPersisted
    /\ burst = NoBurst
    /\ scanDone = FALSE
    /\ preRender = NoRender
    /\ tagLog = NoTagLog
    /\ pickerSeq = 0

sideVars == <<lifeVars, persisted, timeVars, drawVars, tagVars, pickVars>>

\* the observer's callback at the end of a task: active is whether the
\* observer is connected, touched whether the task added or removed nodes
ObserverCallback(active, touched) ==
    LET t == HandleMutations([field |-> debounceTimeout, timers |-> debounceTimers],
                             active /\ touched, now)
    IN /\ debounceTimeout' = t.field
       /\ debounceTimers' = t.timers
       /\ burst' = IF active /\ touched
                   THEN [last |-> now, ran |-> 0, at |-> -1, of |-> -1,
                         restarted |-> Len(debounceTimers) > 0]
                   ELSE burst
       /\ UNCHANGED now

\* the page as a render found it
RenderFrom(d) == [done |-> TRUE, skeleton |-> [x \in Elems |-> Skeleton(d[x].children)]]

(***************************************************************************)
(* Transport                                                               *)
(***************************************************************************)

\* isConnectionReady
IsConnectionReady(readyState) == readyState = "OPEN"

\* handleReconnection, on [attempts, timers]
HandleReconnection(r) ==
    IF r.attempts < MaxReconnectAttempts
    THEN [attempts |-> r.attempts + 1, timers |-> r.timers + 1]
    ELSE r

\* the handlers one closing socket runs: onerror then onclose ("errorClose"),
\* or onclose alone ("close")
RunCloseHandlers(kind, r) ==
    IF kind = "errorClose" THEN HandleReconnection(HandleReconnection(r))
    ELSE HandleReconnection(r)

RECURSIVE ProcessQueueDropOnFailure(_, _, _)
\* a slip of processQueue: the failed message is not put back
ProcessQueueDropOnFailure(ready, queue, failAt) ==
    IF ready /\ Len(queue) > 0
    THEN LET message == Head(queue)
             rest == Tail(queue)
         IN IF failAt = 1
            THEN [queue |-> rest, sent |-> <<>>]
            ELSE LET r == ProcessQueueDropOnFailure(ready, rest,
                                 IF failAt = 0 THEN 0 ELSE failAt - 1)
                 IN [queue |-> r.queue, sent |-> <<message>> \o r.sent]
    ELSE [queue |-> queue, sent |-> <<>>]

RECURSIVE ProcessQueueFromTail(_, _, _)
\* a slip of processQueue: pop() instead of shift()
ProcessQueueFromTail(ready, queue, failAt) ==
    IF ready /\ Len(queue) > 0
    THEN LET message == queue[Len(queue)]
             rest == SubSeq(queue, 1, Len(queue) - 1)
         IN IF failAt = 1
            THEN [queue |-> <<message>> \o rest, sent |-> <<>>]
            ELSE LET r == ProcessQueueFromTail(ready, rest,
                                 IF failAt = 0 THEN 0 ELSE failAt - 1)
                 IN [queue |-> r.queue, sent |-> <<message>> \o r.sent]
    ELSE [queue |-> queue, sent |-> <<>>]

RECURSIVE ProcessQueue(_, _, _)
\* processQueue with its recursion: [queue, sent] when the chain has ended.
\* failAt is the environment's part: the failAt-th sendMessage of the chain
\* rejects (0: none does).
ProcessQueue(ready, queue, failAt) ==
    IF ready /\ Len(queue) > 0
    THEN LET message == Head(queue)
             rest == Tail(queue)
         IN IF failAt = 1
            THEN [queue |-> <<message>> \o rest, sent |-> <<>>]
            ELSE LET r == ProcessQueue(ready, rest,
                                       IF failAt = 0 THEN 0 ELSE failAt - 1)
                 IN [queue |-> r.queue, sent |-> <<message>> \o r.sent]
    ELSE [queue |-> queue, sent |-> <<>>]

Seqs(msgs) == [i \in 1..Len(msgs) |-> msgs[i].seq]

FramesOf(msgs) == [i \in 1..Len(msgs) |-> UpdateFrame(msgs[i])]

\* connectWebSocket: close() on the socket being replaced leaves its handlers
\* attached; a socket closed while connecting fails (error, then close), an
\* open one closes (close), a closed one fires nothing more
ConnectWebSocket ==
    /\ sockets < MaxSockets
    /\ oldFail' = IF ws = "CONNECTING" THEN oldFail + 1 ELSE oldFail
    /\ oldClose' = IF ws = "OPEN" THEN oldClose + 1 ELSE oldClose
    /\ ws' = "CONNECTING"
    /\ sockets' = sockets + 1
    /\ wire' = <<>>
    /\ opened' = NotOpened
(***************************************************************************)
(* Storage and inbound frames                                              *)
(***************************************************************************)

\* Array.isArray(users) ? users : []
LoadUsers(users) == IF users.arr THEN users.items ELSE <<>>

\* loadReactionsFromStorage: [state, redraw]; a failed parse resets the table
\* in the catch block, after which updateAllReactionDisplays is not reached
LoadReactionsFromStorage(state, saved) ==
    CASE saved.kind = "absent" -> [state |-> state, redraw |-> TRUE]
      [] saved.kind = "corrupt" -> [state |-> EmptyMap, redraw |-> FALSE]
      [] OTHER ->
           [state |-> [m \in DOMAIN saved.obj |->
                          [e \in DOMAIN saved.obj[m] |-> LoadUsers(saved.obj[m][e])]],
            redraw |-> TRUE]

\* The string S of a frame's reactions field: absent ("undefined"), not JSON
\* ("corrupt"), or JSON of a list of entries, each entry written as a pair
\* [messageId, [[emoji, users], ...]] ("pairs") or as an object
\* {messageId, reactions: [{emoji, users}, ...]} ("objects")
Payload(kind, table) == [kind |-> kind, table |-> table]

NoPayload == Payload("undefined", EmptyMap)

\* an inbound frame: whether its text is JSON, its type, and the reactions
\* field at the top level (frame.reactions) and in the envelope's data
\* (frame.data.reactions)
Frame(json, type, top, nested) ==
    [json |-> json, type |-> type, top |-> top, nested |-> nested]

\* JSON.parse(reactionsData) and the two map() calls go through: the text is
\* JSON and every entry has a messageId and a reactions list.  An entry written
\* as a pair has neither, and data.reactions.map throws.
Parses(payload) ==
    \/ payload.kind = "objects"
    \/ payload.kind = "pairs" /\ DOMAIN payload.table = {}

\* updateReactionsState: [state, redraw]; the table is replaced only when
\* nothing throws before the assignment
UpdateReactionsState(state, payload) ==
    IF Parses(payload)
    THEN [state |-> payload.table, redraw |-> TRUE]
    ELSE [state |-> state, redraw |-> FALSE]

\* handleWebSocketMessage: the reactions are read from the top level of the
\* parsed frame (data.reactions)
HandleWebSocketMessage(state, frame) ==
    IF frame.json /\ frame.type = "update_reactions"
    THEN UpdateReactionsState(state, frame.top)
    ELSE [state |-> state, redraw |-> FALSE]

\* whether JSON.parse throws in handleWebSocketMessage or in
\* updateReactionsState
FrameThrows(frame) ==
    \/ ~frame.json
    \/ frame.type = "update_reactions" /\ frame.top.kind \in {"undefined", "corrupt"}

\* a slip of the catch blocks: a frame that cannot be parsed is handled as a
\* connection error
CatchFrameErrorReconnect(r, frame) ==
    IF FrameThrows(frame) THEN HandleReconnection(r) ELSE r

\* the catch blocks of handleWebSocketMessage and updateReactionsState, on
\* [attempts, timers]: the error is logged and nothing else is done
CatchFrameError(r, frame) == r

TableSize(t) == Cardinality({p \in (DOMAIN t) \X Emojis : p[2] \in DOMAIN t[p[1]]})

SnapshotTables == {t \in Tables : TableSize(t) <= MaxSnapEntries}

Payloads ==
    {Payload("corrupt", EmptyMap)} \cup
    {Payload(k, t) : k \in {"pairs", "objects"}, t \in SnapshotTables}

InboundFrames ==
    {Frame(FALSE, "none", NoPayload, NoPayload),
     Frame(TRUE, "other", NoPayload, NoPayload)} \cup
    {Frame(TRUE, "update_reactions", NoPayload, p) : p \in Payloads} \cup
    {Frame(TRUE, "update_reactions", p, NoPayload) : p \in Payloads}

(***************************************************************************)
(* Handlers                                                                *)
(***************************************************************************)

\* setup(): setupObserver, startPeriodicCheck, the first scan, then
\* connectWebSocket, then loadReactionsFromStorage with its redraw
Setup ==
    /\ phase = "new"
    /\ phase' = "running"
    /\ observing' = TRUE
    /\ checkInterval' = TRUE
    /\ LET scan == CheckAndAddReactionButtons(dom, messageReactions, currentUserName)
           load == LoadReactionsFromStorage(scan.state, storage)
           drawn == IF load.redraw
                    THEN UpdateAllReactionDisplays(scan.dom, load.state, currentUserName)
                    ELSE scan.dom
       IN /\ messageReactions' = load.state
          /\ dom' = drawn
          /\ ObserverCallback(TRUE, \/ ChildListChanged(dom, scan.dom)
                                    \/ load.redraw /\ RedrawTouches(scan.dom, load.state))
          /\ scanDone' = (drawn = scan.dom)
          /\ preRender' = IF load.redraw THEN RenderFrom(scan.dom) ELSE NoRender
    /\ persisted' = [persisted EXCEPT !.loaded = persisted.valid]
    /\ ConnectWebSocket
    /\ UNCHANGED <<pickVars, messageQueue, reconnectAttempts, timers, storage, currentUserName,
                   toggles, frames, sentLog, enqueued, applied, failedSinceOpen,
                   lastFrame, twice, sessions, cleaned, tagVars>>

\* ws.onopen.  initOk: the send of sendInitialState does not throw (when it
\* throws the handler ends there); failAt: as in ProcessQueue.
WsOpen(initOk, failAt) ==
    /\ phase = "running"
    /\ ws = "CONNECTING"
    /\ ws' = "OPEN"
    /\ reconnectAttempts' = 0
    /\ failedSinceOpen' = 0
    /\ IF initOk
       THEN LET r == ProcessQueue(IsConnectionReady(ws'), messageQueue, failAt)
            IN /\ messageQueue' = r.queue
               /\ wire' = <<InitialFrame(messageReactions)>> \o FramesOf(r.sent)
               /\ sentLog' = sentLog \o Seqs(r.sent)
               /\ opened' = [done |-> TRUE, clean |-> failAt = 0, sentInitial |-> TRUE,
                             queue |-> messageQueue, state |-> messageReactions]
       ELSE /\ failAt = 0
            /\ opened' = [done |-> TRUE, clean |-> FALSE, sentInitial |-> FALSE,
                          queue |-> messageQueue, state |-> messageReactions]
            /\ UNCHANGED <<messageQueue, wire, sentLog>>
    /\ UNCHANGED <<phase, messageReactions, timers, oldFail, oldClose, storage, dom,
                   currentUserName, sockets, toggles, frames, enqueued, applied,
                   lastFrame, twice, sideVars>>

\* this.ws fails or is closed by the relay: onerror and onclose, or onclose.
\* A connection that fails before it opens fires both.
WsFail(kind) ==
    /\ phase = "running"
    /\ ws \in {"CONNECTING", "OPEN"}
    /\ ws = "CONNECTING" => kind = "errorClose"
    /\ ws' = "CLOSED"
    /\ LET r == RunCloseHandlers(kind, [attempts |-> reconnectAttempts, timers |-> timers])
       IN /\ reconnectAttempts' = r.attempts
          /\ timers' = r.timers
    /\ failedSinceOpen' = failedSinceOpen + 1
    /\ UNCHANGED <<phase, messageReactions, messageQueue, oldFail, oldClose, storage,
                   dom, currentUserName, wire, sockets, toggles, frames, sentLog,
                   enqueued, applied, opened, lastFrame, twice, sideVars>>

\* the events of a socket on which close() was called, by connectWebSocket
\* when it replaced the socket or by cleanup
OldSocketEvent(kind) ==
    /\ IF kind = "errorClose"
       THEN oldFail > 0 /\ oldFail' = oldFail - 1 /\ UNCHANGED oldClose
       ELSE oldClose > 0 /\ oldClose' = oldClose - 1 /\ UNCHANGED oldFail
    /\ LET r == RunCloseHandlers(kind, [attempts |-> reconnectAttempts, timers |-> timers])
       IN /\ reconnectAttempts' = r.attempts
          /\ timers' = r.timers
    /\ UNCHANGED <<phase, messageReactions, messageQueue, ws, storage, dom,
                   currentUserName, histVars, sideVars>>

\* a reconnect timer fires: connectWebSocket(sessionToken)
ReconnectTimer ==
    /\ timers > 0
    /\ timers' = timers - 1
    /\ ConnectWebSocket
    /\ UNCHANGED <<phase, messageReactions, messageQueue, reconnectAttempts, storage,
                   dom, currentUserName, toggles, frames, sentLog, enqueued, applied,
                   failedSinceOpen, lastFrame, twice, sideVars>>

\* a click can reach addReaction(messageId, emoji) through a reaction button
\* (its picker offers every emoji) or through a badge drawn for messageId
Clickable(messageId, emoji) ==
    \E x \in Elems : \E i \in 1..Len(dom[x].children) :
       LET n == dom[x].children[i]
       IN /\ dom[x].attached
          /\ n.id = messageId
          /\ n.k = "button" \/ emoji \in DOMAIN n.badges

\* a slip of addReaction's catch: the table is updated although the send threw
CatchToggleErrorApplied(before, toggled) == toggled

\* the table after addReaction's catch block: what follows the await did not
\* run
CatchToggleError(before, toggled) == before

\* addReaction with sendReactionUpdate, sendMessage and queueMessage.
\* sendOk: the socket's send does not throw; storeOk: localStorage.setItem
\* does not throw.
AddReaction(messageId, emoji, sendOk, storeOk) ==
    /\ phase = "running"
    /\ IF currentUserName = None
       THEN sendOk /\ storeOk /\ UNCHANGED coreVars
       ELSE
         LET userId == currentUserName
             message == Message(toggles + 1, messageId, emoji, userId,
                          GetReactionAction(messageReactions, messageId, emoji, userId))
             ready == IsConnectionReady(ws)
             state == UpdateLocalReaction(messageReactions, messageId, emoji, userId)
             drawn == UpdateMessageReactions(dom, state, messageId, userId)
         IN /\ toggles < MaxToggles
            /\ toggles' = toggles + 1
            /\ IF ready
               THEN /\ UNCHANGED <<messageQueue, enqueued>>
                    /\ IF sendOk
                       THEN /\ wire' = Append(wire, UpdateFrame(message))
                            /\ sentLog' = Append(sentLog, message.seq)
                       ELSE UNCHANGED <<wire, sentLog>>
               ELSE /\ sendOk
                    /\ LET r == ProcessQueue(ready, Append(messageQueue, message), 0)
                       IN /\ messageQueue' = r.queue
                          /\ wire' = wire \o FramesOf(r.sent)
                          /\ sentLog' = sentLog \o Seqs(r.sent)
                    /\ enqueued' = Append(enqueued, message)
            /\ IF ready /\ ~sendOk
               THEN /\ storeOk
                    /\ messageReactions' = CatchToggleError(messageReactions, state)
                    /\ UNCHANGED <<dom, storage, applied, persisted, timeVars,
                                   drawVars>>
               ELSE /\ messageReactions' = state
                    /\ dom' = drawn
                    /\ applied' = applied \cup {message.seq}
                    /\ IF storeOk
                       THEN /\ storage' = StorageJson(state)
                            /\ persisted' = [valid |-> TRUE, state |-> state,
                                             loaded |-> FALSE]
                       ELSE UNCHANGED <<storage, persisted>>
                    /\ ObserverCallback(observing, ChildListChanged(dom, drawn))
                    /\ scanDone' = IF drawn = dom THEN scanDone ELSE FALSE
                    /\ preRender' = IF FirstWithId(dom, messageId) # 0
                                    THEN RenderFrom(dom) ELSE preRender
            /\ lastFrame' = NoFrame
            /\ UNCHANGED <<phase, ws, reconnectAttempts, timers, oldFail, oldClose,
                           currentUserName, sockets, frames, failedSinceOpen, opened,
                           twice, lifeVars, tagVars>>

\* the listener setupPickerClickOutside installs: it closes over the picker
\* and the button that opened it
PickerListener(id, button) == [picker |-> id, button |-> button]

\* the target of a click that reaches document: the picker it is inside (0:
\* none) and the reaction button it is (None: not a reaction button)
ClickTarget(inPicker, button) == [picker |-> inPicker, button |-> button]

\* handleClickOutside of one listener acts: the target is outside its picker
\* and is not its button
ClickIsOutside(l, target) == l.picker # target.picker /\ l.button # target.button

\* every installed handleClickOutside runs: [pickers, listeners]
RunClickListeners(ps, ls, target) ==
    LET closed == {l.picker : l \in {k \in ls : ClickIsOutside(k, target)}}
        IsLeft(q) == q.id \notin closed
    IN [pickers |-> SelectSeq(ps, IsLeft),
        listeners |-> {l \in ls : ~ClickIsOutside(l, target)}]

\* showReactionPicker: the first .reaction-picker of the document is removed,
\* the new picker appended to document.body and its listener installed
ShowReactionPicker(ps, ls, id, messageId, button) ==
    [pickers |-> Append(IF Len(ps) > 0 THEN Tail(ps) ELSE ps,
                        [id |-> id, messageId |-> messageId]),
     listeners |-> ls \cup {PickerListener(id, button)}]

\* a click on a badge, or on a reaction button followed by a choice in its
\* picker when the picker itself is not followed: the click bubbles to
\* document
ReactionClick(messageId, emoji, sendOk, storeOk) ==
    /\ Clickable(messageId, emoji)
    /\ AddReaction(messageId, emoji, sendOk, storeOk)
    /\ LET r == RunClickListeners(pickers, listeners, ClickTarget(0, None))
       IN pickers' = r.pickers /\ listeners' = r.listeners
    /\ UNCHANGED pickerSeq

\* a click on the reaction button of element x: stopPropagation keeps the
\* click from document, then showReactionPicker
OpenPicker(x) ==
    /\ pickerSeq < MaxPickers
    /\ dom[x].attached
    /\ \E i \in 1..Len(dom[x].children) :
          /\ dom[x].children[i].k = "button"
          /\ LET r == ShowReactionPicker(pickers, listeners, pickerSeq + 1,
                                         dom[x].children[i].id, x)
             IN pickers' = r.pickers /\ listeners' = r.listeners
    /\ pickerSeq' = pickerSeq + 1
    /\ UNCHANGED coreVars

\* a click on an emoji of an open picker: addReaction, picker.remove(), then
\* the click bubbles to document
SelectEmoji(emoji, sendOk, storeOk) ==
    \E i \in 1..Len(pickers) :
       LET picker == pickers[i]
           IsOther(q) == q.id # picker.id
           r == RunClickListeners(SelectSeq(pickers, IsOther), listeners,
                                  ClickTarget(picker.id, None))
       IN /\ AddReaction(picker.messageId, emoji, sendOk, storeOk)
          /\ pickers' = r.pickers
          /\ listeners' = r.listeners
          /\ UNCHANGED pickerSeq

\* a click on the page outside the pickers, the reaction buttons and the
\* badges
ClickOutside ==
    /\ listeners # {}
    /\ LET r == RunClickListeners(pickers, listeners, ClickTarget(0, None))
       IN pickers' = r.pickers /\ listeners' = r.listeners
    /\ UNCHANGED <<coreVars, pickerSeq>>

\* ws.onmessage
OnMessage(frame) ==
    /\ phase = "running"
    /\ ws = "OPEN"
    /\ frames' = frames + 1
    /\ LET r == CatchFrameError([attempts |-> reconnectAttempts, timers |-> timers],
                               frame)
       IN /\ reconnectAttempts' = r.attempts
          /\ timers' = r.timers
    /\ LET r == HandleWebSocketMessage(messageReactions, frame)
           s == IF frame.nested.kind # "undefined" THEN frame.nested ELSE frame.top
           drawn == IF r.redraw
                    THEN UpdateAllReactionDisplays(dom, r.state, currentUserName)
                    ELSE dom
           touched == r.redraw /\ RedrawTouches(dom, r.state)
           badTable == frame.json /\ FrameThrows(frame)
       IN /\ messageReactions' = r.state
          /\ dom' = drawn
          /\ lastFrame' = [seen |-> TRUE, accepted |-> r.redraw,
                           envelope |-> /\ frame.json
                                        /\ frame.type = "update_reactions"
                                        /\ frame.nested.kind = "pairs",
                           expected |-> s.table,
                           malformed |-> ~frame.json \/ badTable,
                           badTable |-> badTable,
                           afterMalformed |-> \/ lastFrame.malformed
                                              \/ lastFrame.afterMalformed]
          /\ ObserverCallback(observing, touched)
          /\ scanDone' = IF touched \/ drawn # dom THEN FALSE ELSE scanDone
          /\ preRender' = IF r.redraw THEN RenderFrom(dom) ELSE preRender
    /\ UNCHANGED <<pickVars, phase, messageQueue, ws, oldFail,
                   oldClose, storage, currentUserName, wire, sockets, toggles,
                   sentLog, enqueued, applied, failedSinceOpen, opened, twice,
                   lifeVars, persisted, tagVars>>

\* the interval's callback: checkAndAddReactionButtons
Scan ==
    /\ phase = "running"
    /\ checkInterval
    /\ LET r == CheckAndAddReactionButtons(dom, messageReactions, currentUserName)
       IN /\ dom' = r.dom
          /\ messageReactions' = r.state
          /\ lastFrame' = IF r.state = messageReactions /\ r.dom = dom
                          THEN lastFrame ELSE NoFrame
          /\ ObserverCallback(observing, ChildListChanged(dom, r.dom))
          /\ preRender' = IF r.dom = dom THEN preRender ELSE NoRender
    /\ scanDone' = TRUE
    /\ UNCHANGED <<pickVars, phase, messageQueue, ws, reconnectAttempts, timers, oldFail,
                   oldClose, storage, currentUserName, wire, sockets, toggles, frames,
                   sentLog, enqueued, applied, failedSinceOpen, opened, twice,
                   lifeVars, persisted, tagVars>>

\* the debounce timer fires: checkAndAddReactionButtons, and the observer's
\* callback for what the scan itself added
DebouncedScan ==
    /\ Len(debounceTimers) > 0
    /\ debounceTimers[1] = now
    /\ LET r == CheckAndAddReactionButtons(dom, messageReactions, currentUserName)
           left == [field |-> IF Len(debounceTimers) = 1
                              THEN "stale" ELSE debounceTimeout,
                    timers |-> Tail(debounceTimers)]
           again == observing /\ ChildListChanged(dom, r.dom)
           t == HandleMutations(left, again, now)
       IN /\ dom' = r.dom
          /\ messageReactions' = r.state
          /\ lastFrame' = IF r.state = messageReactions /\ r.dom = dom
                          THEN lastFrame ELSE NoFrame
          /\ debounceTimeout' = t.field
          /\ debounceTimers' = t.timers
          /\ burst' = [last |-> IF again THEN now ELSE burst.last,
                       ran |-> IF burst.of = burst.last THEN burst.ran + 1 ELSE 1,
                       at |-> now,
                       of |-> burst.last,
                       restarted |-> burst.restarted /\ ~again]
          /\ preRender' = IF r.dom = dom THEN preRender ELSE NoRender
    /\ scanDone' = TRUE
    /\ UNCHANGED <<pickVars, phase, messageQueue, ws, reconnectAttempts, timers, oldFail,
                   oldClose, storage, currentUserName, wire, sockets, toggles, frames,
                   sentLog, enqueued, applied, failedSinceOpen, opened, twice,
                   now, lifeVars, persisted, tagVars>>

\* a millisecond passes; a timer that is due fires first
Advance ==
    /\ now < MaxTime
    /\ \A i \in 1..Len(debounceTimers) : debounceTimers[i] > now
    /\ now' = now + 1
    /\ UNCHANGED <<pickVars, progVars, histVars, lifeVars, persisted, debounceTimeout,
                   debounceTimers, burst, drawVars, tagVars>>

\* the host page adds a message element
Attach(x, content) ==
    /\ ~dom[x].attached
    /\ dom' = [dom EXCEPT ![x] = NewElement(content, TRUE)]
    /\ lastFrame' = NoFrame
    /\ ObserverCallback(observing, TRUE)
    /\ scanDone' = FALSE
    /\ preRender' = NoRender
    /\ UNCHANGED <<pickVars, phase, messageReactions, messageQueue, ws, reconnectAttempts,
                   timers, oldFail, oldClose, storage, currentUserName, wire, sockets,
                   toggles, frames, sentLog, enqueued, applied, failedSinceOpen,
                   opened, twice, lifeVars, persisted, tagVars>>

\* the host page rewrites the author, text or timestamp of a message element:
\* a characterData or childList record
ContentChange(x, content) ==
    /\ dom[x].attached
    /\ dom[x].content # content
    /\ dom' = [dom EXCEPT ![x].content = content]
    /\ lastFrame' = NoFrame
    /\ ObserverCallback(observing, TRUE)
    /\ scanDone' = FALSE
    /\ UNCHANGED <<pickVars, phase, messageReactions, messageQueue, ws,
                   reconnectAttempts, timers, oldFail, oldClose, storage,
                   currentUserName, wire, sockets, toggles, frames, sentLog, enqueued,
                   applied, failedSinceOpen, opened, twice, lifeVars, persisted,
                   preRender, tagVars>>

\* the host page changes a text or a style under an observed container: the
\* observer delivers a characterData or a style attribute record
HostMutation ==
    /\ observing
    /\ ObserverCallback(observing, TRUE)
    /\ UNCHANGED <<pickVars, progVars, histVars, lifeVars, persisted, drawVars, tagVars>>

\* a slip of cleanup: the table is saved whatever isRefresh is
CleanupStorageAlwaysSave(isRefresh, state) == StorageJson(state)

\* the storage entry after cleanup's localStorage call: saveToLocalStorage
\* for a refresh, removeItem otherwise
CleanupStorage(isRefresh, state) ==
    IF isRefresh THEN StorageJson(state) ELSE StorageAbsent

\* cleanup(isRefresh).  close() on a socket that is connecting or open leaves
\* its handlers attached: its events come later, as those of a replaced
\* socket do.  storeOk: the localStorage call does not throw.
Cleanup(isRefresh, storeOk) ==
    /\ cleaned.n < MaxCleanups
    /\ cleaned' = [n |-> cleaned.n + 1, isRefresh |-> isRefresh, storeOk |-> storeOk]
    /\ observing' = FALSE
    /\ checkInterval' = FALSE
    /\ oldFail' = IF ws = "CONNECTING" THEN oldFail + 1 ELSE oldFail
    /\ oldClose' = IF ws = "OPEN" THEN oldClose + 1 ELSE oldClose
    /\ ws' = IF ws \in {"CONNECTING", "OPEN"} THEN "CLOSING" ELSE ws
    /\ IF storeOk
       THEN /\ storage' = CleanupStorage(isRefresh, messageReactions)
            /\ persisted' = IF isRefresh
                            THEN [valid |-> TRUE, state |-> messageReactions,
                                  loaded |-> FALSE]
                            ELSE NotPersisted
       ELSE UNCHANGED <<storage, persisted>>
    /\ UNCHANGED <<pickVars, phase, messageReactions, messageQueue, reconnectAttempts, timers,
                   dom, currentUserName, histVars, sessions, timeVars, drawVars,
                   tagVars>>

\* the page is loaded again after a teardown: a new document and a new
\* ReactionManager; localStorage outlives the page
PageLoad ==
    /\ cleaned.n > 0
    /\ sessions < MaxSessions
    /\ sessions' = sessions + 1
    /\ phase' = "new"
    /\ messageReactions' = EmptyMap
    /\ messageQueue' = <<>>
    /\ ws' = None
    /\ reconnectAttempts' = 0
    /\ timers' = 0
    /\ oldFail' = 0
    /\ oldClose' = 0
    /\ observing' = FALSE
    /\ checkInterval' = FALSE
    /\ debounceTimeout' = "unset"
    /\ debounceTimers' = <<>>
    /\ dom' = InitDom
    /\ wire' = <<>>
    /\ sentLog' = <<>>
    /\ enqueued' = <<>>
    /\ applied' = {}
    /\ failedSinceOpen' = 0
    /\ opened' = NotOpened
    /\ lastFrame' = NoFrame
    /\ twice' = NoTwice
    /\ burst' = NoBurst
    /\ scanDone' = FALSE
    /\ preRender' = NoRender
    /\ pickers' = <<>>
    /\ listeners' = {}
    /\ UNCHANGED <<storage, currentUserName, sockets, toggles, frames, now, cleaned,
                   persisted, tagVars, pickerSeq>>

\* the host page adds a message container to the chat
ChatAttach(x, inItem, avatar, name) ==
    /\ ~chat.msgs[x].attached
    /\ chat' = [chat EXCEPT !.msgs[x] = NewMessage(TRUE, inItem, avatar, name)]
    /\ ObserverCallback(observing, TRUE)
    /\ UNCHANGED <<pickVars, progVars, histVars, lifeVars, persisted, drawVars, tagLog>>

\* the host page draws a moderator avatar, in the list item ("item") or in a
\* message container
AvatarAppears(node) ==
    /\ IF node = "item"
       THEN /\ ~chat.item.avatar
            /\ chat' = [chat EXCEPT !.item.avatar = TRUE]
       ELSE /\ chat.msgs[node].attached
            /\ ~chat.msgs[node].avatar
            /\ chat' = [chat EXCEPT !.msgs[node].avatar = TRUE]
    /\ ObserverCallback(observing, TRUE)
    /\ UNCHANGED <<pickVars, progVars, histVars, lifeVars, persisted, drawVars, tagLog>>

\* setupModerator or its observer's callback (moderator.ts):
\* checkModeratorMessages
TaggerPass ==
    /\ chat.variant = "pass"
    /\ LET c == CheckModeratorMessages(chat)
       IN /\ chat' = c
          /\ tagLog' = [tagLog EXCEPT !.first =
                           [x \in Elems |->
                               IF chat.msgs[x].attached /\ ~chat.msgs[x].checked
                               THEN Inspection(chat, c, x)
                               ELSE tagLog.first[x]]]
          /\ ObserverCallback(observing, \E x \in Elems : c.msgs[x].badges # chat.msgs[x].badges)
    /\ UNCHANGED <<pickVars, progVars, histVars, lifeVars, persisted, drawVars>>

\* checkForModeratorMessages(message) (part_000) on one message container
InspectMessage(x) ==
    /\ chat.variant = "single"
    /\ chat.msgs[x].attached
    /\ LET r == CheckForModeratorMessages(chat, x)
       IN /\ chat' = r.chat
          /\ tagLog' = [threw |-> tagLog.threw \/ r.threw,
                        first |-> IF chat.msgs[x].checked THEN tagLog.first
                                  ELSE [tagLog.first EXCEPT
                                           ![x] = Inspection(chat, r.chat, x)]]
          /\ ObserverCallback(observing,
                 \/ r.chat.item.badges # chat.item.badges
                 \/ \E y \in Elems : r.chat.msgs[y].badges # chat.msgs[y].badges)
    /\ UNCHANGED <<pickVars, progVars, histVars, lifeVars, persisted, drawVars>>

\* toggle(messageId, emoji, userId) of the Local Reaction Store on its own:
\* updateLocalReaction applied to the table
LocalToggle(messageId, emoji, userId) ==
    /\ messageReactions' = UpdateLocalReaction(messageReactions, messageId, emoji, userId)
    /\ twice' = IF /\ twice.n = 1
                   /\ twice.messageId = messageId
                   /\ twice.emoji = emoji
                   /\ twice.userId = userId
                THEN [twice EXCEPT !.n = 2]
                ELSE [n |-> 1, messageId |-> messageId, emoji |-> emoji,
                      userId |-> userId,
                      before |-> MapGet(MapGet(messageReactions, messageId, EmptyMap),
                                        emoji, <<>>)]
    /\ UNCHANGED <<phase, messageQueue, ws, reconnectAttempts, timers, oldFail,
                   oldClose, storage, dom, currentUserName, wire, sockets, toggles,
                   frames, sentLog, enqueued, applied, failedSinceOpen, opened,
                   lastFrame, sideVars>>

(***************************************************************************)
(* Specifications                                                          *)
(***************************************************************************)

\* what the session's storage entry can hold when the page loads
InitStorages ==
    {StorageAbsent, StorageCorrupt, StorageJson("m1" :> ("e1" :> <<"bob">>))}

\* an entry some other writer left: the value under an emoji is no array
StoredNotArray == [kind |-> "json", obj |-> "m1" :> ("e1" :> JsonOther)]

\* The transport with the user's toggles.
Init ==
    /\ InitProgram
    /\ InitHistory
    /\ storage \in InitStorages
    /\ dom = InitDom
    /\ chat = QuietChat
    /\ currentUserName \in {"alice", None}

Next ==
    \/ Setup
    \/ \E initOk \in BOOLEAN : \E failAt \in 0..Len(messageQueue) : WsOpen(initOk, failAt)
    \/ \E kind \in {"close", "errorClose"} : WsFail(kind)
    \/ \E kind \in {"close", "errorClose"} : OldSocketEvent(kind)
    \/ ReconnectTimer
    \/ \E m \in MsgIds \cup {EmptyContentId} : \E e \in Emojis : \E ok \in BOOLEAN :
          ReactionClick(m, e, ok, TRUE)

Spec == Init /\ [][Next]_vars

\* The relay's pushes, the scans and the user's toggles on a connection that
\* stays up.
InitSync ==
    /\ InitProgram
    /\ InitHistory
    /\ storage \in InitStorages
    /\ dom = InitDom
    /\ chat = QuietChat
    /\ currentUserName = "alice"

NextSync ==
    \/ Setup
    \/ WsOpen(TRUE, 0)
    \/ \E f \in InboundFrames : frames < MaxFrames /\ OnMessage(f)
    \/ \E m \in MsgIds \cup {EmptyContentId} : \E e \in Emojis : ReactionClick(m, e, TRUE, TRUE)
    \/ Scan
    \/ \E c \in MsgIds : Attach("el2", c)

SpecSync == InitSync /\ [][NextSync]_vars

\* The store's toggle from the empty table.
InitToggle ==
    /\ InitProgram
    /\ InitHistory
    /\ storage = StorageAbsent
    /\ dom = InitDom
    /\ chat = QuietChat
    /\ currentUserName = "alice"

NextToggle ==
    \E m \in MsgIds : \E e \in Emojis : \E u \in Users : LocalToggle(m, e, u)

SpecToggle == InitToggle /\ [][NextToggle]_vars

\* The store's toggle from any table a frame can have installed.
InitLists ==
    /\ phase = "new"
    /\ messageReactions \in SnapshotTables
    /\ messageQueue = <<>>
    /\ ws = None
    /\ reconnectAttempts = 0
    /\ timers = 0
    /\ oldFail = 0
    /\ oldClose = 0
    /\ observing = FALSE
    /\ checkInterval = FALSE
    /\ debounceTimeout = "unset"
    /\ debounceTimers = <<>>
    /\ now = 0
    /\ pickers = <<>>
    /\ listeners = {}
    /\ InitHistory
    /\ storage = StorageAbsent
    /\ dom = InitDom
    /\ chat = QuietChat
    /\ currentUserName = "alice"

SpecLists == InitLists /\ [][NextToggle]_vars

\* Sessions: toggles, snapshots and scans, the teardown and the next page
\* load.
InitSession ==
    /\ InitProgram
    /\ InitHistory
    /\ storage \in (InitStorages \ {StorageCorrupt}) \cup {StoredNotArray}
    /\ dom = InitDom
    /\ chat = QuietChat
    /\ currentUserName = "alice"

NextSession ==
    \/ Setup
    \/ WsOpen(TRUE, 0)
    \/ \E storeOk \in BOOLEAN : ReactionClick("m1", "e1", TRUE, storeOk)
    \/ Scan
    \/ Attach("el2", "m2")
    \/ \E isRefresh \in BOOLEAN : \E st \in BOOLEAN : Cleanup(isRefresh, st)
    \/ PageLoad

SpecSession == InitSession /\ [][NextSession]_vars

\* Inbound frames, good and bad, on a transport that fails and reconnects.
FrameSamples ==
    {Frame(FALSE, "none", NoPayload, NoPayload),
     Frame(TRUE, "other", NoPayload, NoPayload),
     Frame(TRUE, "update_reactions", NoPayload, NoPayload),
     Frame(TRUE, "update_reactions", Payload("corrupt", EmptyMap), NoPayload),
     Frame(TRUE, "update_reactions", NoPayload,
           Payload("pairs", "m1" :> ("e1" :> <<"bob">>))),
     Frame(TRUE, "update_reactions",
           Payload("objects", "m1" :> ("e1" :> <<"bob">>)), NoPayload)}

\* (the user clicks while no message waits in the queue)
NextFrames ==
    \/ Setup
    \/ \E failAt \in 0..Len(messageQueue) : WsOpen(TRUE, failAt)
    \/ \E kind \in {"close", "errorClose"} : WsFail(kind)
    \/ \E kind \in {"close", "errorClose"} : OldSocketEvent(kind)
    \/ ReconnectTimer
    \/ messageQueue = <<>> /\ ReactionClick("m1", "e1", TRUE, TRUE)
    \/ \E f \in FrameSamples : frames < MaxFrameRun /\ OnMessage(f)

InitFrames ==
    /\ InitProgram
    /\ InitHistory
    /\ storage = StorageJson("m1" :> ("e1" :> <<"bob">>))
    /\ dom = InitDom
    /\ chat = QuietChat
    /\ currentUserName = "alice"

SpecFrames == InitFrames /\ [][NextFrames]_vars

\* The observer, the debounce timer and the clock.
InitDebounce ==
    /\ InitProgram
    /\ InitHistory
    /\ storage = StorageAbsent
    /\ dom = InitDom
    /\ chat = QuietChat
    /\ currentUserName = "alice"

NextDebounce ==
    \/ Setup
    \/ \E c \in MsgIds : Attach("el2", c)
    \/ HostMutation
    \/ DebouncedScan
    \/ Advance

SpecDebounce == InitDebounce /\ [][NextDebounce]_vars

\* The Moderator Tagger on a page whose messages and avatars arrive in any
\* order.
InitModerator ==
    /\ InitProgram
    /\ InitHistory
    /\ storage = StorageAbsent
    /\ dom = InitDom
    /\ currentUserName = "alice"
    /\ chat \in {NewChat(v, a, n) : v \in {"pass", "single"}, a \in BOOLEAN, n \in BOOLEAN}

NextModerator ==
    \/ \E x \in Elems : \E i \in BOOLEAN : \E a \in BOOLEAN : \E n \in BOOLEAN :
          ChatAttach(x, i, a, n)
    \/ \E node \in Elems \cup {"item"} : AvatarAppears(node)
    \/ TaggerPass
    \/ \E x \in Elems : InspectMessage(x)

SpecModerator == InitModerator /\ [][NextModerator]_vars

\* The pickers and the click listeners on document.
NextPicker ==
    \/ Setup
    \/ Attach("el2", "m2")
    \/ Scan
    \/ \E x \in Elems : OpenPicker(x)
    \/ \E e \in Emojis : SelectEmoji(e, TRUE, TRUE)
    \/ ClickOutside
    \/ ReactionClick("m1", "e1", TRUE, TRUE)

SpecPicker == InitFrames /\ [][NextPicker]_vars

\* The identity of the message elements under scans, redraws and rewrites
\* of the elements' content.
NextIdentity ==
    \/ Setup
    \/ WsOpen(TRUE, 0)
    \/ \E f \in FrameSamples : frames < MaxFrameRun /\ OnMessage(f)
    \/ Scan
    \/ \E c \in MsgIds : Attach("el2", c)
    \/ \E x \in Elems : \E c \in MsgIds : ContentChange(x, c)

SpecIdentity == InitFrames /\ [][NextIdentity]_vars

\* The transport around a cleanup() of the running manager: failures,
\* replaced sockets, reconnect timers.
NextTeardown ==
    \/ Setup
    \/ WsOpen(TRUE, 0)
    \/ \E kind \in {"close", "errorClose"} : WsFail(kind)
    \/ \E kind \in {"close", "errorClose"} : OldSocketEvent(kind)
    \/ ReconnectTimer
    \/ ReactionClick("m1", "e1", TRUE, TRUE)
    \/ \E isRefresh \in BOOLEAN : phase = "running" /\ Cleanup(isRefresh, TRUE)

SpecTeardown == InitFrames /\ [][NextTeardown]_vars

\* The transport when only the first connection fails and the relay accepts
\* every later one.
NextRecover ==
    \/ Setup
    \/ WsOpen(TRUE, 0)
    \/ \E kind \in {"close", "errorClose"} : sockets = 1 /\ WsFail(kind)
    \/ \E kind \in {"close", "errorClose"} : OldSocketEvent(kind)
    \/ ReconnectTimer
    \/ ReactionClick("m1", "e1", TRUE, TRUE)

SpecRecover == InitFrames /\ [][NextRecover]_vars
(***************************************************************************)
(* Properties                                                              *)
(***************************************************************************)
Min(a, b) == IF a < b THEN a ELSE b

InSeq(q, v) == \E i \in 1..Len(q) : q[i] = v

NoDuplicates(q) == \A i, j \in 1..Len(q) : i # j => q[i] # q[j]

ReactorList(state, messageId, emoji) ==
    MapGet(MapGet(state, messageId, EmptyMap), emoji, <<>>)

\* C1: every failed connection since the last open (an error, a close, or an
\* error followed by a close) has consumed exactly one of the 5 attempts, so
\* the retry counter is the number of failed connections, capped at 5.
C1_OneAttemptPerFailure ==
    reconnectAttempts = Min(failedSinceOpen, MaxReconnectAttempts)

\* C2: a toggle has been applied to the local table only if its
\* reaction_update message has been transmitted on the socket.
C2_AppliedOnlyAfterSent == \A seq \in applied : InSeq(sentLog, seq)

\* C3: the queue holds, in the order they were enqueued, exactly the enqueued
\* messages that have not been transmitted, and no message has been
\* transmitted twice.
C3_QueueHoldsUnsent ==
    /\ messageQueue = SelectSeq(enqueued, LAMBDA m : ~InSeq(sentLog, m.seq))
    /\ NoDuplicates(sentLog)

\* C3's case: a drain has transmitted an enqueued message and then met a send
\* failure, so that the connection is open with a message back in the queue.
C3_FailedSendPutBack ==
    /\ ws = "OPEN"
    /\ Len(messageQueue) > 0
    /\ \E i \in 1..Len(enqueued) : InSeq(sentLog, enqueued[i].seq)

\* C4: when the connection has opened and no send failed, the queue is empty
\* while the connection stays open, and the messages queued at the open were
\* transmitted right after the initial frame in their enqueue order.
C4_DrainIsFifo ==
    (opened.done /\ opened.clean) =>
        /\ ws = "OPEN" => messageQueue = <<>>
        /\ Len(wire) >= 1 + Len(opened.queue)
        /\ SubSeq(wire, 2, 1 + Len(opened.queue)) = FramesOf(opened.queue)

\* C4's case: an open without a send failure found two or more messages
\* queued.
C4_DrainedSeveral == opened.done /\ opened.clean /\ Len(opened.queue) >= 2

\* C5: after an open whose initial send went through, the first frame on the
\* socket is an update_reactions frame whose table is the complete local
\* table of that moment: every message with every emoji and its reactors.
C5_InitialFrameIsFullState ==
    (opened.done /\ opened.sentInitial) =>
        /\ Len(wire) >= 1
        /\ wire[1].type = "update_reactions"
        /\ wire[1].reactions = opened.state

\* C6: after a frame {type: "update_reactions", data: {reactions: S}} with S
\* the JSON of a list of [messageId, [[emoji, users], ...]] entries, the local
\* table is the table S encodes.
C6_FrameInstallsTable ==
    (lastFrame.seen /\ lastFrame.envelope) => messageReactions = lastFrame.expected

\* what an element shows when it is drawn from the table
ExpectedDisplay(state, messageId) ==
    LET reactions == MapGet(state, messageId, EmptyMap)
    IN IF DOMAIN reactions = {} THEN <<>> ELSE <<reactions>>

\* C7: after an accepted snapshot the local table is the snapshot's table and
\* every attached element shows exactly the badges of the new table for its
\* identity (none for a message the snapshot does not list).
C7_SnapshotRedrawsAll ==
    lastFrame.accepted =>
        /\ messageReactions = lastFrame.expected
        /\ \A x \in Elems :
              dom[x].attached =>
                  Displayed(dom[x]) = ExpectedDisplay(messageReactions, dom[x].messageId)

\* C8 as claimed: two toggles in a row for the same (messageId, emoji, userId)
\* leave the reactor list of that emoji exactly as it was, wherever the user
\* stood in it (stated for the lists of the data model, which name a user at
\* most once).
C8_ToggleTwiceRestores ==
    (twice.n = 2 /\ NoDuplicates(twice.before)) =>
        ReactorList(messageReactions, twice.messageId, twice.emoji) = twice.before

\* C8 as amended: two toggles in a row restore the list when the user was
\* absent; when the user was present they leave the list with every
\* occurrence of the user taken out and the user appended at the end.
C8_ToggleTwiceMovesLast ==
    twice.n = 2 =>
        ReactorList(messageReactions, twice.messageId, twice.emoji) =
            IF Includes(twice.before, twice.userId)
            THEN Append(FilterOut(twice.before, twice.userId), twice.userId)
            ELSE twice.before

\* C8's case: the user was present before the two toggles, and not last.
C8_RemovedThenAdded ==
    /\ twice.n = 2
    /\ Includes(twice.before, twice.userId)
    /\ twice.before[Len(twice.before)] # twice.userId

\* C9: from the empty table, after any toggles, no emoji key has an empty
\* reactor list.
C9_NoEmptyEntry ==
    \A m \in DOMAIN messageReactions : \A e \in DOMAIN messageReactions[m] :
        Len(messageReactions[m][e]) > 0

\* C9's case: an add then a remove by the same user on a fresh emoji, after
\* which the key is gone.
C9_LastReactorRemoved ==
    /\ twice.n = 2
    /\ twice.before = <<>>
    /\ twice.messageId \in DOMAIN messageReactions
    /\ twice.emoji \notin DOMAIN messageReactions[twice.messageId]

\* C10: in every reachable table a user occurs at most once in a reactor list
\* and no reactor list is empty.
C10_TableWellFormed ==
    \A m \in DOMAIN messageReactions : \A e \in DOMAIN messageReactions[m] :
        /\ NoDuplicates(messageReactions[m][e])
        /\ Len(messageReactions[m][e]) > 0

\* C11: when a page load reads the entry saveToLocalStorage wrote for a table,
\* the table after setup is that table: the same messages (those without
\* reactions included), the same emoji, the same reactor lists in order.
C11_SaveLoadRoundTrip ==
    [][(phase = "new" /\ phase' = "running" /\ persisted.valid)
          => messageReactions' = persisted.state]_vars

\* C11's case: a later session has loaded a saved table that holds a message
\* without reactions and a message with a reactor.
C11_LoadedSavedTable ==
    /\ sessions > 1
    /\ persisted.loaded
    /\ messageReactions = persisted.state
    /\ \E m \in DOMAIN messageReactions : DOMAIN messageReactions[m] = {}
    /\ \E m \in DOMAIN messageReactions : \E e \in DOMAIN messageReactions[m] :
          Len(messageReactions[m][e]) > 0

\* C12: every handler of the running manager that changes the table (a
\* toggle, a snapshot, the registration of a message by a scan) leaves the
\* storage entry equal to the encoding of the table.
C12_MutationIsPersisted ==
    [][(phase' = "running" /\ messageReactions' # messageReactions)
          => storage' = StorageJson(messageReactions')]_vars

\* C13: handling a frame that is not JSON, or an update_reactions frame whose
\* table is missing or not JSON, leaves the socket open and the retry
\* counter, the pending reconnects, the sockets and the outbound queue as
\* they were.
C13_MalformedFrameKeepsTransport ==
    [][(frames' # frames /\ lastFrame'.malformed)
          => /\ ws = "OPEN" /\ ws' = "OPEN"
             /\ reconnectAttempts' = reconnectAttempts
             /\ timers' = timers
             /\ sockets' = sockets
             /\ oldFail' = oldFail
             /\ oldClose' = oldClose
             /\ messageQueue' = messageQueue]_vars

\* C13's case: after a malformed frame, on the same open socket, a frame has
\* been accepted while a message waits in the outbound queue.
C13_AcceptedAfterMalformed ==
    /\ lastFrame.accepted
    /\ lastFrame.afterMalformed
    /\ ws = "OPEN"
    /\ Len(messageQueue) > 0

\* C14: after a frame whose reaction table is not JSON, and after a load
\* that finds a stored entry that is not JSON, the table is empty.
C14_MalformedJsonResets ==
    [][(\/ frames' # frames /\ lastFrame'.badTable
        \/ phase = "new" /\ phase' = "running" /\ storage.kind = "corrupt")
          => messageReactions' = EmptyMap]_vars

\* C15 as claimed: when cleanup(isRefresh) returns the observer and the
\* interval are stopped, the socket is neither connecting nor open, and the
\* storage entry holds the table (refresh) or is absent (otherwise).
C15_CleanupPersistsOrErases ==
    [][cleaned'.n # cleaned.n
          => /\ ~observing'
             /\ ~checkInterval'
             /\ ws' \notin {"CONNECTING", "OPEN"}
             /\ storage' = IF cleaned'.isRefresh
                           THEN StorageJson(messageReactions')
                           ELSE StorageAbsent]_vars

\* C15 as amended: the same, except that when the localStorage call throws
\* the storage entry is left as it was.
C15_CleanupUnlessStorageThrows ==
    [][cleaned'.n # cleaned.n
          => /\ ~observing'
             /\ ~checkInterval'
             /\ ws' \notin {"CONNECTING", "OPEN"}
             /\ messageReactions' = messageReactions
             /\ storage' = IF ~cleaned'.storeOk THEN storage
                           ELSE IF cleaned'.isRefresh
                           THEN StorageJson(messageReactions')
                           ELSE StorageAbsent]_vars

\* C15's case: a refresh teardown of an open connection whose save threw:
\* the entry is not the table's.
C15_RefreshSaveThrew ==
    /\ cleaned.n > 0
    /\ cleaned.isRefresh
    /\ ~cleaned.storeOk
    /\ ws = "CLOSING"
    /\ storage # StorageJson(messageReactions)

\* no user name span carries more than one MOD badge
OneBadgePerName(c) ==
    /\ c.item.badges <= 1
    /\ \A x \in Elems : c.msgs[x].badges <= 1

\* C16 as claimed: an inspected element is checked; without the marker its
\* node got no class and no badge, with the marker (and a user name) the
\* class and exactly one badge; whatever passes follow, the class and the
\* badge count of its node stay what the first inspection left, and no user
\* name carries two badges.
C16_TagFixedByFirstInspection ==
    /\ OneBadgePerName(chat)
    /\ \A x \in Elems :
          LET first == tagLog.first[x]
          IN first.done =>
                /\ chat.msgs[x].checked
                /\ ~first.marker => (~first.class /\ first.badges = 0)
                /\ first.marker => first.class
                /\ (first.marker /\ first.name) => first.badges = 1
                /\ TaggedClass(chat, x) = first.class
                /\ TaggedBadges(chat, x) = first.badges

\* the steps that change the class or the badges of the node of an inspected
\* element x inspect, for the first time, another element of the same list
\* item (part_000 only)
TagChangesOnlyByOthers ==
    \A x \in Elems :
       (/\ tagLog.first[x].done
        /\ \/ TaggedClass(chat', x) # TaggedClass(chat, x)
           \/ TaggedBadges(chat', x) # TaggedBadges(chat, x))
       => /\ chat.variant = "single"
          /\ \E y \in Elems \ {x} :
                /\ ~chat.msgs[y].checked /\ chat'.msgs[y].checked
                /\ chat.msgs[y].inItem /\ chat.msgs[x].inItem

\* C16 as amended: an inspected element is checked; without the marker the
\* inspection left no class and no badge, with the marker the class and (if
\* the node has a user name) a badge; no user name ever carries two
\* badges (a list item can hold several badged names); a class is never
\* taken back; in moderator.ts the class and badge count of an inspected
\* element never change, in part_000 they change only
\* when another message of the same list item is inspected for the first
\* time.
C16_TagOncePerInspection ==
    /\ [](/\ OneBadgePerName(chat)
          /\ \A x \in Elems :
                LET first == tagLog.first[x]
                IN first.done =>
                      /\ chat.msgs[x].checked
                      /\ ~first.marker => (~first.class /\ first.badges = 0)
                      /\ first.marker => first.class
                      /\ (first.marker /\ first.name) => first.badges >= 1
                      /\ first.class => TaggedClass(chat, x)
                      /\ TaggedBadges(chat, x) >= first.badges
                      /\ chat.variant = "pass" =>
                            /\ first.badges <= 1
                            /\ TaggedClass(chat, x) = first.class
                            /\ TaggedBadges(chat, x) = first.badges)
    /\ [][TagChangesOnlyByOthers]_vars

\* C16's case: a message was inspected before the marker appeared in its
\* list item, and the list item has been tagged since.
C16_TaggedAfterInspection ==
    \E x \in Elems :
       /\ tagLog.first[x].done
       /\ ~tagLog.first[x].marker
       /\ TaggedClass(chat, x)
       /\ TaggedBadges(chat, x) = 1

\* C17: no inspection of a message element throws.
C17_InspectionNeverThrows == ~tagLog.threw

\* C18: at most one debounce timer is pending; a pending timer is the one
\* the field names and is due 100 ms after the last qualifying mutation, for
\* which no scan has run yet; a debounced scan runs 100 ms after the last
\* mutation before it and is the only one for that mutation; when no timer
\* is pending the scan for the last mutation has run.
C18_TrailingDebounce ==
    /\ Len(debounceTimers) <= 1
    /\ Len(debounceTimers) = 1 =>
          /\ debounceTimeout = "live"
          /\ debounceTimers[1] = burst.last + DebounceDelay
          /\ burst.of # burst.last
    /\ burst.at >= 0 => (burst.at = burst.of + DebounceDelay /\ burst.ran = 1)
    /\ (Len(debounceTimers) = 0 /\ burst.last >= 0) =>
          (burst.of = burst.last /\ burst.ran = 1)

\* C18's case: a mutation cancelled a pending timer (a burst), and the one
\* scan of the burst has run, 100 ms after its last mutation.
C18_BurstCoalesced ==
    /\ burst.restarted
    /\ Len(debounceTimers) = 0
    /\ burst.ran = 1
    /\ burst.at = burst.last + DebounceDelay
    /\ burst.last > DebounceDelay

\* C19: when a scan has completed, every attached element has exactly one
\* reaction button and at most one reactions container (so none is marked
\* as handled without its button).
C19_OneControlPerElement ==
    scanDone =>
        \A x \in Elems :
           dom[x].attached =>
              /\ CountKind(dom[x].children, "button") = 1
              /\ Len(SelectSeq(dom[x].children, IsContainer)) <= 1

\* C20: a render leaves the children of every element as they were, badges
\* inside the reactions container aside; the container is appended when the
\* element had none.
C20_RenderKeepsOtherChildren ==
    preRender.done =>
        \A x \in Elems :
           LET pre == preRender.skeleton[x]
               post == Skeleton(dom[x].children)
               hadContainer == \E i \in 1..Len(pre) : pre[i] \in {"wrapper", "container"}
           IN dom[x].attached =>
                 \/ post = pre
                 \/ ~hadContainer /\ post = Append(pre, "container")

\* C21: at most one picker is open, and the click listeners installed on
\* document are as many as the open pickers.
C21_ListenerPerOpenPicker ==
    /\ Len(pickers) <= 1
    /\ Cardinality(listeners) = Len(pickers)

\* C22: an element that has an identity keeps it, whatever scan, redraw or
\* rewrite of its content follows.
C22_IdentityIsCached ==
    [][\A x \in Elems :
          (dom[x].attached /\ dom[x].messageId # None /\ dom'[x].attached)
             => dom'[x].messageId = dom[x].messageId]_vars

\* C23: a toggle whose send throws on the open socket leaves the table, the
\* storage entry and the outbound queue as they were.
C23_FailedToggleIsSkipped ==
    [][(toggles' # toggles /\ IsConnectionReady(ws) /\ sentLog' = sentLog)
          => /\ messageReactions' = messageReactions
             /\ storage' = storage
             /\ messageQueue' = messageQueue]_vars

\* C23's case: a toggle was built and neither applied nor queued, on an open
\* socket, with a table and a storage entry that hold reactions.
C23_ToggleWasSkipped ==
    /\ toggles > Cardinality(applied)
    /\ ws = "OPEN"
    /\ messageReactions # EmptyMap
    /\ storage = StorageJson(messageReactions)

\* C24: once cleanup has run, no step creates a socket, counts a failure or
\* schedules a reconnect.
C24_DisconnectedAfterCleanup ==
    [][cleaned.n > 0
          => /\ sockets' = sockets
             /\ reconnectAttempts' = reconnectAttempts
             /\ timers' <= timers]_vars

\* C25: when only the first connection fails, a connection opened after the
\* failure stays open, and the events of a replaced socket schedule no
\* reconnect.
C25_ReconnectedStaysOpen ==
    [][/\ (sockets > 1 /\ ws = "OPEN") => ws' = "OPEN"
       /\ (oldFail' + oldClose' < oldFail + oldClose) => timers' = timers]_vars

\* C26: the reaction_update messages are transmitted in the order of their
\* toggles: no transmitted message was built after one that waits in the
\* queue or after one transmitted later.
C26_SentInToggleOrder ==
    /\ \A i \in 1..Len(sentLog) : \A j \in 1..Len(messageQueue) :
          sentLog[i] < messageQueue[j].seq
    /\ \A i \in 1..Len(sentLog) : \A j \in 1..Len(sentLog) :
          i < j => sentLog[i] < sentLog[j]
====
